---- MODULE Spec2Model ----
(***************************************************************************)
(* nomino: the batch rename executor (src/src/main.rs) and the source      *)
(* resolver (src/src/input/source.rs), over a small POSIX filesystem.      *)
(*                                                                         *)
(* A path string is kept as the sequence of its segments between '/'       *)
(* separators: "d/out" is <<"d","out">>, "/" is <<"","">>, "d/" is         *)
(* <<"d","">>, "." is <<".">> and the empty string is <<"">>.  File names  *)
(* are strings, so that prepending an underscore is string concatenation.  *)
(***************************************************************************)
EXTENDS Integers, Sequences, FiniteSets, TLC

VARIABLES
    fs,          \* the filesystem: canonical absolute path -> [kind, id]
    candidates,  \* what the environment offers: the mapping file's entries in
                 \* file order, or the pairs the collector and formatter yield
    pc,          \* "start", "for", "while", "exit"
    source,      \* the resolved Source variant, "None" before and on failure
    config,      \* "pending", "ok", or the configuration error that ended run_app
    test_mode, overwrite, mkdir, print_map, generate_map,   \* the options
    context,     \* the pairs the Context iterator has still to yield
    input, output, file_path,    \* the loop's locals for the current pair
    map,         \* the result map (destination -> input), empty without need_map
    with_err,    \* the aggregate failure flag
    checks,      \* existence checks done for the current pair
    tried,       \* the paths the collision loop tested for the current pair
    yielded,     \* the pairs the Context iterator has yielded, in order
    log,         \* one RenameOutcome record per processed pair, in order
    fs0,         \* the filesystem when the run started
    exit_code    \* the process exit code, -1 while running

vars == <<fs, candidates, pc, source, config, test_mode, overwrite, mkdir,
          print_map, generate_map, context, input, output, file_path, map,
          with_err, checks, tried, yielded, log, fs0, exit_code>>

----------------------------------------------------------------------------
(* Bounds *)

MaxPairs == 2

----------------------------------------------------------------------------
(* std::path, as main.rs uses it *)

Max(S) == CHOOSE m \in S : \A n \in S : n <= m

None == <<>>
Some(v) == <<v>>

EmptyPath == <<"">>
RootPath == <<"", "">>

has_root(p) == Len(p) >= 2 /\ p[1] = ""

\* The segments Path::components yields besides the root: empty segments and
\* "." are skipped, except a leading ".".
ComponentIdx(p) == {i \in 1..Len(p) : p[i] # "" /\ (p[i] # "." \/ i = 1)}

\* Path::file_name: the last component when it is a normal one.
file_name(p) ==
    LET I == ComponentIdx(p) IN
    IF I = {} THEN None
    ELSE IF p[Max(I)] \in {".", ".."} THEN None
    ELSE Some(p[Max(I)])

\* Path::parent: the path without its last component; None for "" and "/".
parent(p) ==
    LET I == ComponentIdx(p) IN
    IF I = {} THEN None
    ELSE LET J == I \ {Max(I)} IN
         IF J # {} THEN Some(SubSeq(p, 1, Max(J)))
         ELSE IF has_root(p) THEN Some(RootPath)
         ELSE Some(EmptyPath)

\* PathBuf::pop: truncate to the parent, when there is one.
pop(p) == IF parent(p) = None THEN p ELSE parent(p)[1]

\* PathBuf::push of a relative name: a separator is added unless the buffer
\* is empty or ends with one.
push(p, name) ==
    IF p = EmptyPath THEN <<name>>
    ELSE IF p[Len(p)] = "" THEN SubSeq(p, 1, Len(p) - 1) \o <<name>>
    ELSE Append(p, name)

\* Path::with_file_name: set_file_name on a copy.
with_file_name(p, name) ==
    push(IF file_name(p) # None THEN pop(p) ELSE p, name)

unwrap_or_default(o) == IF o = None THEN "" ELSE o[1]

\* A faulty variant of the collision step: the file name is put back as it is.
Underscored_same(p) == with_file_name(p, unwrap_or_default(file_name(p)))

\* One iteration of the collision loop: "_" + file name, in place of the file name.
Underscored(p) == with_file_name(p, "_" \o unwrap_or_default(file_name(p)))

RECURSIVE SumLen(_, _)
SumLen(p, i) == IF i > Len(p) THEN 0 ELSE Len(p[i]) + SumLen(p, i + 1)

\* The length of the path string.
StrLen(p) == SumLen(p, 1) + Len(p) - 1

----------------------------------------------------------------------------
(* The filesystem under std::fs: entries by canonical absolute path.  A      *)
(* "link" is a symbolic link whose target is missing.                       *)

Cwd == <<"w">>

Dir(i) == [kind |-> "dir", id |-> i]
File(i) == [kind |-> "file", id |-> i]
Link(i) == [kind |-> "link", id |-> i]

Entries(f) == DOMAIN f
Ids(f) == {f[q].id : q \in DOMAIN f}

IsDirAt(f, q) == q \in DOMAIN f /\ f[q].kind = "dir"
Up(q) == IF q = <<>> THEN <<>> ELSE SubSeq(q, 1, Len(q) - 1)
IsPrefix(q, r) == Len(q) <= Len(r) /\ SubSeq(r, 1, Len(q)) = q
Children(f, q) == {r \in DOMAIN f : Len(r) = Len(q) + 1 /\ IsPrefix(q, r)}

\* Path resolution: every segment is looked up in a directory that exists.
RECURSIVE Walk(_, _, _, _)
Walk(f, p, i, cur) ==
    IF i > Len(p) THEN [st |-> "ok", at |-> cur]
    ELSE IF ~IsDirAt(f, cur)
    THEN [st |-> IF cur \in DOMAIN f /\ f[cur].kind = "file" THEN "notdir" ELSE "noent",
          at |-> cur]
    ELSE IF p[i] \in {"", "."} THEN Walk(f, p, i + 1, cur)
    ELSE IF p[i] = ".." THEN Walk(f, p, i + 1, Up(cur))
    ELSE Walk(f, p, i + 1, Append(cur, p[i]))

Resolve(f, p) ==
    IF p = EmptyPath THEN [st |-> "noent", at |-> <<>>]
    ELSE IF has_root(p) THEN Walk(f, p, 2, <<>>)
    ELSE Walk(f, p, 1, Cwd)

\* Path::exists: metadata(path).is_ok(), which follows symbolic links.
exists(f, p) ==
    LET r == Resolve(f, p) IN
    r.st = "ok" /\ r.at \in DOMAIN f /\ f[r.at].kind # "link"

\* Path::is_dir
is_dir(f, p) ==
    LET r == Resolve(f, p) IN r.st = "ok" /\ IsDirAt(f, r.at)

----------------------------------------------------------------------------
(* The system calls behind std::fs *)

NewDirId == "new"

Put(f, q, e) == [x \in DOMAIN f \cup {q} |-> IF x = q THEN e ELSE f[x]]

\* The last non-empty segment of the path string, "" when there is none.
LastSeg(p) ==
    LET I == {i \in 1..Len(p) : p[i] # ""} IN
    IF I = {} THEN "" ELSE p[Max(I)]

RECURSIVE StripTrailing(_)
StripTrailing(p) ==
    IF Len(p) >= 2 /\ p[Len(p)] = "" /\ p # RootPath
    THEN StripTrailing(SubSeq(p, 1, Len(p) - 1))
    ELSE p

\* mkdir(2)
sys_mkdir(f, p) ==
    LET r == Resolve(f, p) IN
    IF r.st = "noent" THEN [err |-> "NotFound", fs |-> f]
    ELSE IF r.st = "notdir" THEN [err |-> "NotADirectory", fs |-> f]
    ELSE IF r.at \in DOMAIN f THEN [err |-> "AlreadyExists", fs |-> f]
    ELSE [err |-> "", fs |-> Put(f, r.at, Dir(NewDirId))]

\* fs::create_dir_all: mkdir, and on NotFound the parent first, then mkdir again.
RECURSIVE create_dir_all(_, _)
create_dir_all(f, p) ==
    IF ComponentIdx(p) = {} /\ ~has_root(p) THEN [ok |-> TRUE, fs |-> f]
    ELSE LET m == sys_mkdir(f, p) IN
         IF m.err = "" THEN [ok |-> TRUE, fs |-> m.fs]
         ELSE IF m.err # "NotFound" THEN [ok |-> is_dir(f, p), fs |-> f]
         ELSE IF parent(p) = None THEN [ok |-> FALSE, fs |-> f]
         ELSE LET up == create_dir_all(f, parent(p)[1]) IN
              IF ~up.ok THEN up
              ELSE LET m2 == sys_mkdir(up.fs, p) IN
                   IF m2.err = "" THEN [ok |-> TRUE, fs |-> m2.fs]
                   ELSE [ok |-> is_dir(up.fs, p), fs |-> up.fs]

\* The tree at s moved to d (d is free, or an entry that is replaced).
Move(f, s, d) ==
    LET kept == {q \in DOMAIN f : ~IsPrefix(s, q) /\ q # d}
        moved == {d \o SubSeq(q, Len(s) + 1, Len(q)) : q \in {x \in DOMAIN f : IsPrefix(s, x)}}
    IN [x \in kept \cup moved |->
          IF x \in moved THEN f[s \o SubSeq(x, Len(d) + 1, Len(x))] ELSE f[x]]

\* rename(2): the source must exist; an existing destination is replaced when
\* it is a non-directory (for a non-directory source) or an empty directory
\* (for a directory source).
sys_rename(f, from, to) ==
    LET src == Resolve(f, from)
        dst == Resolve(f, StripTrailing(to))
        fail == [ok |-> FALSE, fs |-> f]
    IN IF src.st # "ok" \/ src.at \notin DOMAIN f THEN fail
       ELSE IF LastSeg(from) \in {"", ".", ".."} \/ LastSeg(to) \in {"", ".", ".."} THEN fail
       ELSE IF dst.st # "ok" THEN fail
       ELSE IF StripTrailing(to) # to /\ f[src.at].kind # "dir" THEN fail
       ELSE IF dst.at = src.at THEN [ok |-> TRUE, fs |-> f]
       ELSE IF IsPrefix(src.at, dst.at) THEN fail
       ELSE IF dst.at \in DOMAIN f
               /\ IF f[src.at].kind = "dir"
                  THEN ~(f[dst.at].kind = "dir" /\ Children(f, dst.at) = {})
                  ELSE f[dst.at].kind = "dir"
            THEN fail
       ELSE [ok |-> TRUE, fs |-> Move(f, src.at, dst.at)]

----------------------------------------------------------------------------
(* Source (input/source.rs) and the options read by run_app *)

Pair(i, o) == [input |-> i, output |-> o]

Ok(v) == [ok |-> TRUE, val |-> v, err |-> ""]
Err(e) == [ok |-> FALSE, val |-> [variant |-> "None", pairs |-> <<>>], err |-> e]

Patterns == {"(.*)", "("}
SortTokens == {"asc", "DESC", "up"}
MapFiles == {"map.json", "missing.json", "broken.json"}
Templates == {"{}", "{"}
Opt(S) == {None} \cup {Some(x) : x \in S}

\* Regex::new: "(" is the pattern that does not compile.
RegexNew(pattern) == pattern # "("

to_lowercase(s) == IF s = "DESC" THEN "desc" ELSE s

\* Source::new_regex
new_regex(pattern) ==
    IF RegexNew(pattern) THEN {Ok([variant |-> "Regex", pairs |-> <<>>])}
    ELSE {Err("regex")}

\* Source::new_sort
new_sort(order) ==
    IF to_lowercase(order) \in {"asc", "desc"}
    THEN {Ok([variant |-> "Sort", pairs |-> <<>>])}
    ELSE {Err("sort order")}

\* serde_json into a HashMap: of the entries with one key the last one stays.
HashMapOf(s) == {s[i] : i \in {k \in 1..Len(s) : \A j \in (k + 1)..Len(s) : s[j].output # s[k].output}}

\* The mapping file's entries in file order.
FileOrder(s) ==
    LET keep == {k \in 1..Len(s) : \A j \in (k + 1)..Len(s) : s[j].output # s[k].output}
        F[i \in 0..Len(s)] ==
            IF i = 0 THEN <<>> ELSE IF i \in keep THEN Append(F[i - 1], s[i]) ELSE F[i - 1]
    IN F[Len(s)]

\* HashMap::into_iter().collect(): the entries in the order the hasher of this
\* HashMap instance gives, which is any order.
IntoIterCollect(S) ==
    {t \in [1..Cardinality(S) -> S] : \A e \in S : \E i \in 1..Cardinality(S) : t[i] = e}

\* Source::new_map: "map.json" holds the candidates, "missing.json" cannot be
\* read and "broken.json" is no JSON object of strings.
new_map(filename) ==
    IF filename = "missing.json" THEN {Err("io")}
    ELSE IF filename = "broken.json" THEN {Err("parse")}
    ELSE {Ok([variant |-> "Map", pairs |-> t]) : t \in IntoIterCollect(HashMapOf(candidates))}

\* read_source: the first option that is set decides.
read_source(regex, sort, mapfile) ==
    IF regex # None THEN new_regex(regex[1])
    ELSE IF sort # None THEN new_sort(sort[1])
    ELSE IF mapfile # None THEN new_map(mapfile[1])
    ELSE {Err("one of 'regex', 'sort' or 'map' options must be set")}

\* Formatter::new: "{" is the template that does not parse.
FormatterNew(template) == template # "{"

\* read_output
read_output(out) ==
    IF out = None THEN Ok(None)
    ELSE IF FormatterNew(out[1]) THEN Ok(Some(out[1]))
    ELSE [ok |-> FALSE, val |-> None, err |-> "template"]

----------------------------------------------------------------------------
(* The inputs: starting filesystems and candidate pairs *)

Base ==
    (<<>> :> Dir("root")) @@ (<<"w">> :> Dir("cwd"))
    @@ (<<"w", "a">> :> File("a")) @@ (<<"w", "b">> :> File("b"))

OutFile == <<"w", "out">> :> File("out")
OutLink == <<"w", "out">> :> Link("out")
UOutFile == <<"w", "_out">> :> File("_out")
DDir == <<"w", "d">> :> Dir("d")

InitFS ==
    {Base, Base @@ OutFile, Base @@ OutLink, Base @@ OutFile @@ UOutFile,
     Base @@ DDir, Base @@ OutFile @@ DDir}

CandidatePairs ==
    {Pair(<<"a">>, <<"out">>), Pair(<<"b">>, <<"out">>), Pair(<<"out">>, <<"out">>),
     Pair(<<"a">>, <<"d", "out">>), Pair(<<"b">>, <<"d", "..", "out">>),
     Pair(<<"b">>, <<"..">>), Pair(<<"a">>, <<"d", "">>)}

PairSeqs == UNION {[1..n -> CandidatePairs] : n \in 0..MaxPairs}

\* What a directory walk can yield: distinct inputs, each a regular file.
Collectable(f, s) ==
    /\ \A i, j \in 1..Len(s) : s[i].input = s[j].input => i = j
    /\ \A i \in 1..Len(s) :
         LET r == Resolve(f, s[i].input) IN
         r.st = "ok" /\ r.at \in DOMAIN f /\ f[r.at].kind = "file"

----------------------------------------------------------------------------
(* rename_files (main.rs), one loop iteration at a time *)

EmptyMap == [k \in {} |-> <<>>]

\* Map::insert
insert(m, k, v) == [x \in DOMAIN m \cup {k} |-> IF x = k THEN v ELSE m[x]]

\* fs::rename
fs_rename(f, from, to) == sys_rename(f, from, to)

\* Lines 75-79: the parent directories, when asked for; the result is dropped.
make_parents(f, mk, path) ==
    IF mk /\ parent(path) # None THEN create_dir_all(f, parent(path)[1]).fs ELSE f

\* Faulty variants of the loop body: the flag is the last attempt's result
\* (line 85 as "with_err = !is_renamed" on both arms); the map entry is
\* recorded whatever is_renamed is (line 95 without its first condition).
body_flag_last(f, m, werr, inp, out, path, tm, nm, mk) ==
    LET f1 == make_parents(f, mk, path)
        r == IF tm THEN [ok |-> TRUE, fs |-> f1] ELSE fs_rename(f1, inp, path)
    IN [fs |-> r.fs,
        map |-> IF r.ok /\ nm THEN insert(m, out, inp) ELSE m,
        with_err |-> ~r.ok,
        attempt |-> IF tm THEN "none" ELSE IF r.ok THEN "ok" ELSE "err"]

body_insert_always(f, m, werr, inp, out, path, tm, nm, mk) ==
    LET f1 == make_parents(f, mk, path)
        r == IF tm THEN [ok |-> TRUE, fs |-> f1] ELSE fs_rename(f1, inp, path)
    IN [fs |-> r.fs,
        map |-> IF nm THEN insert(m, out, inp) ELSE m,
        with_err |-> werr \/ ~r.ok,
        attempt |-> IF tm THEN "none" ELSE IF r.ok THEN "ok" ELSE "err"]

\* Lines 75-98: what one pair does once its destination is settled.
body(f, m, werr, inp, out, path, tm, nm, mk) ==
    LET f1 == make_parents(f, mk, path)
        r == IF tm THEN [ok |-> TRUE, fs |-> f1] ELSE fs_rename(f1, inp, path)
        is_renamed == r.ok
    IN [fs |-> r.fs,
        map |-> IF is_renamed /\ nm THEN insert(m, out, inp) ELSE m,
        with_err |-> werr \/ ~r.ok,
        attempt |-> IF tm THEN "none" ELSE IF r.ok THEN "ok" ELSE "err"]

\* Lines 59-74: the destination after the collision loop.
RECURSIVE settle(_, _, _)
settle(f, ow, path) ==
    IF ~ow /\ exists(f, path) THEN settle(f, ow, Underscored(path)) ELSE path

\* rename_files as a whole: the loop over the pairs, from a filesystem.
RECURSIVE rename_files(_, _, _, _, _, _, _, _)
rename_files(s, f, m, werr, tm, nm, ow, mk) ==
    IF s = <<>> THEN [fs |-> f, map |-> m, with_err |-> werr]
    ELSE LET path == settle(f, ow, s[1].output)
             b == body(f, m, werr, s[1].input, path, path, tm, nm, mk)
         IN rename_files(Tail(s), b.fs, b.map, b.with_err, tm, nm, ow, mk)

need_map == print_map \/ generate_map

\* A faulty variant of main: an Err of run_app is reported and exits with 0.
main_ok_on_err(res) == IF res.ok THEN (IF res.val THEN 1 ELSE 0) ELSE 0

\* main: the exit code of a run_app result.
main(res) == IF res.ok THEN (IF res.val THEN 1 ELSE 0) ELSE 1

----------------------------------------------------------------------------
(* The state machine *)

Init ==
    /\ fs \in InitFS
    /\ fs0 = fs
    /\ candidates \in PairSeqs
    /\ pc = "start"
    /\ source = [variant |-> "None", pairs |-> <<>>]
    /\ config = "pending"
    /\ test_mode = FALSE /\ overwrite = FALSE /\ mkdir = FALSE
    /\ print_map = FALSE /\ generate_map = FALSE
    /\ context = <<>>
    /\ input = EmptyPath /\ output = EmptyPath /\ file_path = EmptyPath
    /\ map = EmptyMap
    /\ with_err = FALSE
    /\ checks = 0
    /\ tried = {}
    /\ yielded = <<>>
    /\ log = <<>>
    /\ exit_code = -1

Exit(code, why) ==
    /\ pc' = "exit"
    /\ exit_code' = code
    /\ config' = why

\* run_app, lines 123-133: the working directory and the source.
RunAppSource ==
    /\ pc = "start"
    /\ \E dir_ok \in BOOLEAN, regex \in Opt(Patterns), sort \in Opt(SortTokens),
          mapfile \in Opt(MapFiles) :
         IF ~dir_ok
         THEN Exit(main(Err("chdir")), "chdir") /\ UNCHANGED source
         ELSE \E r \in read_source(regex, sort, mapfile) :
                IF r.ok
                THEN source' = r.val /\ pc' = "context" /\ UNCHANGED <<exit_code, config>>
                ELSE Exit(main(r), r.err) /\ UNCHANGED source
    /\ UNCHANGED <<fs, candidates, test_mode, overwrite, mkdir, print_map, generate_map,
                   context, input, output, file_path, map, with_err, checks, tried,
                   yielded, log, fs0>>

\* Context::new: the pairs of a Map source as they are, else what the collector
\* and the formatter yield; it fails on a template the source cannot serve.
ContextNew(src, formatter, ctx_ok) ==
    IF ~ctx_ok THEN [ok |-> FALSE, val |-> <<>>, err |-> "context"]
    ELSE Ok(IF src.variant = "Map" THEN src.pairs ELSE candidates)

\* run_app, lines 134-145: the template, the context and the flags.
RunAppContext ==
    /\ pc = "context"
    /\ \E tmpl \in Opt(Templates), ctx_ok \in BOOLEAN :
         LET fmt == read_output(tmpl) IN
         IF ~fmt.ok
         THEN /\ Exit(main(fmt), fmt.err)
              /\ UNCHANGED <<context, test_mode, overwrite, mkdir, print_map, generate_map>>
         ELSE LET ctx == ContextNew(source, fmt.val, ctx_ok) IN
              IF ~ctx.ok
              THEN /\ Exit(main(ctx), ctx.err)
                   /\ UNCHANGED <<context, test_mode, overwrite, mkdir, print_map,
                                  generate_map>>
              ELSE /\ source.variant # "Map" => Collectable(fs, candidates)
                   /\ context' = ctx.val
                   /\ test_mode' \in BOOLEAN /\ overwrite' \in BOOLEAN
                   /\ mkdir' \in BOOLEAN /\ print_map' \in BOOLEAN
                   /\ generate_map' \in BOOLEAN
                   /\ pc' = "for" /\ config' = "ok"
                   /\ UNCHANGED exit_code
    /\ source' = [variant |-> "Moved", pairs |-> <<>>]
    /\ UNCHANGED <<fs, candidates, input, output, file_path, map, with_err, checks,
                   tried, yielded, log, fs0>>

\* The RenameOutcome of a pair, from what fs::rename returned.
Outcome(attempt) ==
    IF attempt = "none" THEN "Skipped" ELSE IF attempt = "ok" THEN "Renamed" ELSE "Failed"

\* Line 56: the next pair of the context.
NextPair ==
    /\ pc = "for" /\ context # <<>>
    /\ input' = Head(context).input
    /\ output' = Head(context).output
    /\ file_path' = Head(context).output
    /\ context' = Tail(context)
    /\ yielded' = Append(yielded, Head(context))
    /\ checks' = 0 /\ tried' = {}
    /\ pc' = "while"
    /\ UNCHANGED <<fs, candidates, source, config, test_mode, overwrite, mkdir, print_map,
                   generate_map, map, with_err, log, fs0, exit_code>>

\* Lines 60-73: the destination exists, so it gets one more underscore.
WhileExists ==
    /\ pc = "while" /\ ~overwrite /\ exists(fs, file_path)
    /\ file_path' = Underscored(file_path)
    /\ output' = Underscored(file_path)
    /\ checks' = checks + 1
    /\ tried' = tried \cup {file_path}
    /\ UNCHANGED <<fs, candidates, pc, source, config, test_mode, overwrite, mkdir,
                   print_map, generate_map, context, input, map, with_err, yielded, log,
                   fs0, exit_code>>

\* A faulty variant of the loop body's step: a failed rename returns from
\* rename_files at once (line 83 as "Err(e) => return Err(e)").
Body_abort ==
    /\ pc = "while" /\ (overwrite \/ ~exists(fs, file_path))
    /\ LET b == body(fs, map, with_err, input, output, file_path, test_mode, need_map,
                     mkdir)
       IN /\ fs' = b.fs
          /\ map' = b.map
          /\ with_err' = b.with_err
          /\ log' = Append(log, [input |-> input, final |-> file_path,
                                 outcome |-> Outcome(b.attempt)])
          /\ pc' = IF b.attempt = "err" THEN "exit" ELSE "for"
    /\ checks' = IF overwrite THEN checks ELSE checks + 1
    /\ UNCHANGED <<candidates, source, config, test_mode, overwrite, mkdir, print_map,
                   generate_map, context, input, output, file_path, tried, yielded,
                   fs0, exit_code>>

\* Lines 75-98: the destination is settled: directories, rename, result map.
Body ==
    /\ pc = "while" /\ (overwrite \/ ~exists(fs, file_path))
    /\ LET b == body(fs, map, with_err, input, output, file_path, test_mode, need_map,
                     mkdir)
       IN /\ fs' = b.fs
          /\ map' = b.map
          /\ with_err' = b.with_err
          /\ log' = Append(log, [input |-> input, final |-> file_path,
                                 outcome |-> Outcome(b.attempt)])
    /\ checks' = IF overwrite THEN checks ELSE checks + 1
    /\ pc' = "for"
    /\ UNCHANGED <<candidates, source, config, test_mode, overwrite, mkdir, print_map,
                   generate_map, context, input, output, file_path, tried, yielded,
                   fs0, exit_code>>

\* Line 100, run_app lines 146-156 and main: the map file, the table, the exit code.
RunAppFinish ==
    /\ pc = "for" /\ context = <<>>
    /\ \E write_ok \in BOOLEAN :
         IF generate_map /\ ~write_ok
         THEN exit_code' = main(Err("write"))
         ELSE exit_code' = main(Ok(with_err))
    /\ pc' = "exit"
    /\ UNCHANGED <<fs, candidates, source, config, test_mode, overwrite, mkdir, print_map,
                   generate_map, context, input, output, file_path, map, with_err,
                   checks, tried, yielded, log, fs0>>

Next ==
    \/ RunAppSource
    \/ RunAppContext
    \/ NextPair
    \/ WhileExists
    \/ Body
    \/ RunAppFinish

Spec == Init /\ [][Next]_vars

----------------------------------------------------------------------------
(* Properties *)

Running == config = "ok"
Finished == pc = "exit" /\ config = "ok"
Failures == {i \in 1..Len(log) : log[i].outcome = "Failed"}
Renames == {i \in 1..Len(log) : log[i].outcome = "Renamed"}
Computed == IF yielded = <<>> THEN EmptyPath ELSE yielded[Len(yielded)].output

\* C1: with overwrite = false no entry is ever replaced: every entry the
\* filesystem held when the run started is still there, at its old path or at
\* the destination it was renamed to.
C1_NothingReplaced ==
    (Running /\ ~overwrite) => Ids(fs0) \subseteq Ids(fs)

\* C2: a dry run leaves the filesystem as it found it, whatever the overwrite and
\* create-parent-directories flags are.
C2_DryRunFrame ==
    (Running /\ test_mode) => fs = fs0

\* C3: the result map of a dry run is the result map the run without dry-run
\* records on the same pairs, flags and starting filesystem.
C3_DryRunMapIsRealMap ==
    (Finished /\ test_mode /\ need_map) =>
        map = rename_files(yielded, fs0, EmptyMap, FALSE, FALSE, TRUE, overwrite, mkdir).map

\* C4: the failure flag is set exactly when some rename attempt has failed; a
\* run over no pairs and a dry run end with the flag unset.
C4_FlagIffFailed ==
    /\ with_err = (Failures # {})
    /\ (Finished /\ (yielded = <<>> \/ test_mode)) => ~with_err

C4_Witness ==
    /\ Finished /\ with_err
    /\ \E i \in Failures : \E j \in Renames : i < j

\* C5: the pairs are processed one by one in the order the context yields them,
\* all of them; a failed rename leaves every entry where it was and the loop
\* goes on with the pairs that remain.
C5_Progress ==
    Running =>
        /\ Len(log) = Len(yielded) - (IF pc = "while" THEN 1 ELSE 0)
        /\ \A i \in 1..Len(log) : log[i].input = yielded[i].input
        /\ pc = "exit" => context = <<>>

C5_Step ==
    /\ (Running /\ Running') => yielded' \o context' = yielded \o context
    /\ (Len(log') > Len(log) /\ log'[Len(log')].outcome = "Failed") =>
          /\ \A q \in DOMAIN fs : q \in DOMAIN fs' /\ fs'[q] = fs[q]
          /\ pc' = "for" /\ context' = context

C5_InOrderNoAbort == []C5_Progress /\ [][C5_Step]_vars

C5_Witness ==
    /\ Finished
    /\ \E i \in Failures : \E j \in Renames : i < j /\ log[j].final \notin {log[i].final}

RECURSIVE Underscores(_)
Underscores(k) == IF k = 0 THEN "" ELSE "_" \o Underscores(k - 1)

\* The destination p with k underscores before its file name, in p's directory.
Variant(p, k) ==
    IF k = 0 THEN p
    ELSE push(pop(p), Underscores(k) \o unwrap_or_default(file_name(p)))

Settling == pc = "while" /\ ~overwrite

LeastVariant ==
    /\ file_path = Variant(Computed, checks)
    /\ \A j \in 0..(checks - 1) : exists(fs, Variant(Computed, j))

\* An entry is at the path, a symbolic link without a target included.
Present(f, p) ==
    LET r == Resolve(f, p) IN r.st = "ok" /\ r.at \in DOMAIN f

\* The step that settles a destination leaves the entries that made it collide
\* (all but those in skip) as they were.
Settled(skip) ==
    (Settling /\ pc' = "for") =>
        /\ log'[Len(log')].final = file_path
        /\ \A j \in 0..(checks - 1) :
             LET e == Resolve(fs, Variant(Computed, j)).at IN
             e \notin skip => e \in DOMAIN fs' /\ fs'[e] = fs[e]

\* C6: for every destination the final path is the computed one with the least
\* number of underscores before its file name, its directory unchanged, at
\* which no entry is; the colliding entries stay untouched.
C6_AsStated ==
    /\ [](Settling => LeastVariant)
    /\ [][(Settling /\ pc' = "for") => ~Present(fs, file_path)]_vars
    /\ [][Settled({})]_vars

\* What the code keeps of C6: for a destination that has a file name the final
\* path is the computed one with the least number k >= 0 of underscores before
\* its file name, in the same directory, for which Path::exists is false; the
\* entries that made it collide stay untouched, except the pair's own input.
LeastUnderscored ==
    /\ []((Settling /\ file_name(Computed) # None) => LeastVariant)
    /\ [][(Settling /\ pc' = "for") => ~exists(fs, file_path)]_vars
    /\ [][file_name(Computed) # None => Settled({Resolve(fs, input).at})]_vars

LeastUnderscored_Seen ==
    /\ pc = "for" /\ Running /\ ~overwrite /\ ~test_mode /\ log # <<>>
    /\ log[Len(log)].final = <<"__out">>
    /\ log[Len(log)].outcome = "Renamed"
    /\ Computed = <<"out">>
    /\ {<<"w", "out">>, <<"w", "_out">>} \subseteq DOMAIN fs0 \cap DOMAIN fs
    /\ fs[<<"w", "out">>] = fs0[<<"w", "out">>]
    /\ fs[<<"w", "_out">>] = fs0[<<"w", "_out">>]

\* The last successful pair that ended at the destination of pair i.
LastAt(i) == Max({j \in Renames : log[j].final = log[i].final})

\* C7 as stated: after a run that renames, the map holds (final destination ->
\* input) for every pair that was renamed and no entry for a pair that failed.
C7_AsStated ==
    (Finished /\ ~test_mode /\ need_map) =>
        /\ \A i \in Renames :
             log[i].final \in DOMAIN map /\ map[log[i].final] = log[i].input
        /\ \A i \in Failures :
             ~(log[i].final \in DOMAIN map /\ map[log[i].final] = log[i].input)

\* C7: after a run that renames, the map has exactly the final destinations of
\* the renamed pairs as its keys, and each key holds the input of the last pair
\* that was renamed to it; a failed pair adds no entry.
C7_MapOfRenamed ==
    (Running /\ ~test_mode /\ need_map /\ pc \in {"for", "exit"}) =>
        /\ DOMAIN map = {log[i].final : i \in Renames}
        /\ \A i \in Renames : map[log[i].final] = log[LastAt(i)].input

C7_Witness ==
    /\ Finished /\ ~test_mode /\ need_map
    /\ Renames # {} /\ Failures # {} /\ DOMAIN map # {}

ConfigError == config \notin {"pending", "ok"}

\* C8: exit code 0 needs a configuration that resolved and renames that all
\* succeeded (or a dry run); a configuration error or a failed rename gives
\* exit code 1; a configuration error ends the run with the filesystem
\* untouched and no pair processed.
C8_ExitCode ==
    /\ exit_code = 0 => (config = "ok" /\ (test_mode \/ Failures = {}))
    /\ (pc = "exit" /\ (ConfigError \/ Failures # {})) => exit_code = 1
    /\ ConfigError => (pc = "exit" /\ fs = fs0 /\ log = <<>> /\ yielded = <<>>)

C8_Witness ==
    pc = "exit" /\ config = "parse" /\ exit_code = 1 /\ candidates # <<>>

\* All settings of the flags of rename_files.
RunsAgree(s, t, f) ==
    \A tm, nm, ow, mk \in BOOLEAN :
        rename_files(s, f, EmptyMap, FALSE, tm, nm, ow, mk).fs
            = rename_files(t, f, EmptyMap, FALSE, tm, nm, ow, mk).fs

\* C9: a Map source holds the entries of the mapping file in file order, so
\* that a run on it ends with the filesystem every other run on this file and
\* this starting filesystem ends with.
C9_MapOrderDeterministic ==
    (pc = "context" /\ source.variant = "Map") =>
        /\ source.pairs = FileOrder(candidates)
        /\ RunsAgree(source.pairs, FileOrder(candidates), fs)

Longer == (pc = "while" /\ pc' = "while") => StrLen(file_path') > StrLen(file_path)

ChecksBounded ==
    /\ checks <= Cardinality(DOMAIN fs) + 1
    /\ pc = "while" => file_path \notin tried

\* What is left to do: the phase of run_app, the pairs not yet yielded, whether
\* a pair is in work, and the existence checks its collision loop has left.
Rank ==
    <<CASE pc = "start" -> 3 [] pc = "context" -> 2 [] pc = "exit" -> 0 [] OTHER -> 1,
      Len(context),
      IF pc = "while" THEN 1 ELSE 0,
      Cardinality(DOMAIN fs) + 1 - checks>>

\* The lexicographic order on ranks.
Less(r, t) == \E i \in 1..Len(r) : r[i] < t[i] /\ \A j \in 1..(i - 1) : r[j] = t[j]

RankInNat == \A i \in 1..Len(Rank) : Rank[i] \in Nat

\* As long as the run has not ended, the code has a step to take.
CanStep ==
    \/ pc \in {"start", "context", "exit"}
    \/ pc = "for" /\ (context # <<>> \/ context = <<>>)
    \/ pc = "while" /\ ~overwrite /\ exists(fs, file_path)
    \/ pc = "while" /\ (overwrite \/ ~exists(fs, file_path))

\* No run goes on for ever: one that keeps taking steps reaches the end.
Ends == []<><<Next>>_vars => <>(pc = "exit")

====
